---- MODULE Spec2Model ----
(***************************************************************************)
(* Model of fix2.py: the script that rebuilds an HWPX package (a zip       *)
(* container) from the files extracted under TEMPLATE_DIR, writing them    *)
(* in the fixed order FILE_ORDER with a per-member compression method.     *)
(*                                                                         *)
(* Path names are sequences of one-character strings, so that joining a    *)
(* path and testing a suffix are computed on the characters.               *)
(***************************************************************************)
EXTENDS Integers, Sequences, FiniteSets, TLC

VARIABLES
    pc,          \* position of the script: "open", "loop", "exit", "print", "done", "failed"
    tree,        \* the relative names that exist under TEMPLATE_DIR
    idx,         \* number of FILE_ORDER entries the for loop has consumed
    archive,     \* member list of the file at OUTPUT_PATH
    zf,          \* the ZipFile handle: "NotStarted", "InProgress", "Closed"
    closes,      \* how many times the handle was closed in this run
    console,     \* lines printed in this run
    err,         \* pending/raised exception: "none", "OutputUnwritable", "SourceReadFailure"
    failedAt,    \* 0, or the position of the entry whose zf.write raised
    outcome,     \* "running", "ok", "error"
    run,         \* number of the current run of the script
    firstResult  \* <<>> until a run completes, then <<member list of that run>>

vars == <<pc, tree, idx, archive, zf, closes, console, err, failedAt, outcome,
          run, firstResult>>

----------------------------------------------------------------------------
(* Constants of the script *)

TEMPLATE_DIR == <<"/","t","m","p","/","h","w","p","x","_","2","0","2","6","_","f","r","e","s","h">>

FILE_ORDER_dup ==
    << <<"m","i","m","e","t","y","p","e">>,
       <<"v","e","r","s","i","o","n",".","x","m","l">>,
       <<"C","o","n","t","e","n","t","s","/","h","e","a","d","e","r",".","x","m","l">>,
       <<"C","o","n","t","e","n","t","s","/","s","e","c","t","i","o","n","0",".","x","m","l">>,
       <<"P","r","e","v","i","e","w","/","P","r","v","T","e","x","t",".","t","x","t">>,
       <<"S","c","r","i","p","t","s","/","h","e","a","d","e","r","S","c","r","i","p","t","s">>,
       <<"S","c","r","i","p","t","s","/","s","o","u","r","c","e","S","c","r","i","p","t","s">>,
       <<"s","e","t","t","i","n","g","s",".","x","m","l">>,
       <<"P","r","e","v","i","e","w","/","P","r","v","I","m","a","g","e",".","p","n","g">>,
       <<"M","E","T","A","-","I","N","F","/","c","o","n","t","a","i","n","e","r",".","r","d","f">>,
       <<"C","o","n","t","e","n","t","s","/","c","o","n","t","e","n","t",".","h","p","f">>,
       <<"M","E","T","A","-","I","N","F","/","c","o","n","t","a","i","n","e","r",".","x","m","l">>,
       <<"M","E","T","A","-","I","N","F","/","c","o","n","t","a","i","n","e","r",".","x","m","l">> >>

FILE_ORDER ==
    << <<"m","i","m","e","t","y","p","e">>,
       <<"v","e","r","s","i","o","n",".","x","m","l">>,
       <<"C","o","n","t","e","n","t","s","/","h","e","a","d","e","r",".","x","m","l">>,
       <<"C","o","n","t","e","n","t","s","/","s","e","c","t","i","o","n","0",".","x","m","l">>,
       <<"P","r","e","v","i","e","w","/","P","r","v","T","e","x","t",".","t","x","t">>,
       <<"S","c","r","i","p","t","s","/","h","e","a","d","e","r","S","c","r","i","p","t","s">>,
       <<"S","c","r","i","p","t","s","/","s","o","u","r","c","e","S","c","r","i","p","t","s">>,
       <<"s","e","t","t","i","n","g","s",".","x","m","l">>,
       <<"P","r","e","v","i","e","w","/","P","r","v","I","m","a","g","e",".","p","n","g">>,
       <<"M","E","T","A","-","I","N","F","/","c","o","n","t","a","i","n","e","r",".","r","d","f">>,
       <<"C","o","n","t","e","n","t","s","/","c","o","n","t","e","n","t",".","h","p","f">>,
       <<"M","E","T","A","-","I","N","F","/","c","o","n","t","a","i","n","e","r",".","x","m","l">>,
       <<"M","E","T","A","-","I","N","F","/","m","a","n","i","f","e","s","t",".","x","m","l">> >>

NumEntries == Len(FILE_ORDER)

Range(s) == {s[k] : k \in 1..Len(s)}

ZIP_STORED == 0
ZIP_DEFLATED == 8

----------------------------------------------------------------------------
(* Pure helpers *)

\* str.endswith(suffix)
endswith(s, suffix) ==
    /\ Len(s) >= Len(suffix)
    /\ SubSeq(s, Len(s) - Len(suffix) + 1, Len(s)) = suffix

\* os.path.join(a, b) on a POSIX system
join(a, b) ==
    IF Len(b) > 0 /\ b[1] = "/" THEN b
    ELSE IF Len(a) = 0 \/ a[Len(a)] = "/" THEN a \o b
    ELSE a \o <<"/">> \o b

\* the path the loop probes and reads for an entry
full_path(fname) == join(TEMPLATE_DIR, fname)

\* a mutation of the existence test: the result is inverted
exists_inverted(path) == path \notin {join(TEMPLATE_DIR, f) : f \in tree}

\* os.path.exists(path), the files on disk being the tree under TEMPLATE_DIR
exists(path) == path \in {join(TEMPLATE_DIR, f) : f \in tree}

\* a mutation of the compression choice: everything is deflated
compress_alwaysDeflated(fname) == ZIP_DEFLATED

\* the compression method chosen for an entry
compress(fname) ==
    IF fname = <<"m","i","m","e","t","y","p","e">> \/ endswith(fname, <<".","p","n","g">>)
    THEN ZIP_STORED
    ELSE ZIP_DEFLATED

\* a member of the archive as zf.write records it
Member(fname, ctype, whole) == [name |-> fname, compress_type |-> ctype, complete |-> whole]

\* the lines the script prints
WarningLine(fname) == <<"Warning: ", fname, " not found">>
AddedLine(fname) == <<"Added: ", fname>>
DoneLine == <<"Done! Template recreated with correct file order.">>

\* a mutation of opening the archive: mode 'a' keeps the existing members
OpenAppend(old) == old

\* zipfile.ZipFile(OUTPUT_PATH, 'w'): the existing content is truncated
OpenWrite(old) == <<>>

----------------------------------------------------------------------------
(* What OUTPUT_PATH may hold before the run: nothing, or a stale package   *)
(* whose members are in another order with another compression.            *)

StaleArchive ==
    << Member(FILE_ORDER[3], ZIP_DEFLATED, TRUE),
       Member(FILE_ORDER[1], ZIP_DEFLATED, TRUE) >>

PriorContents == {<<>>, StaleArchive}

MaxRuns == 2

Init ==
    /\ pc = "open"
    /\ tree \in SUBSET Range(FILE_ORDER)
    /\ idx = 0
    /\ archive \in PriorContents
    /\ zf = "NotStarted"
    /\ closes = 0
    /\ console = <<>>
    /\ err = "none"
    /\ failedAt = 0
    /\ outcome = "running"
    /\ run = 1
    /\ firstResult = <<>>

----------------------------------------------------------------------------
(* Steps of the script *)

\* line 25: the archive is opened for writing
OpenOk ==
    /\ pc = "open"
    /\ archive' = OpenWrite(archive)
    /\ zf' = "InProgress"
    /\ pc' = "loop"
    /\ UNCHANGED <<tree, idx, closes, console, err, failedAt, outcome, run, firstResult>>

\* a mutation of the failing open: the error is caught and the loop runs
OpenFail_caught ==
    /\ pc = "open"
    /\ pc' = "loop"
    /\ err' = "OutputUnwritable"
    /\ UNCHANGED <<tree, idx, archive, zf, closes, console, failedAt, outcome, run, firstResult>>

\* line 25: opening raises (unwritable path, missing parent directory);
\* the with body and line 40 are never entered
OpenFail ==
    /\ pc = "open"
    /\ pc' = "failed"
    /\ err' = "OutputUnwritable"
    /\ outcome' = "error"
    /\ UNCHANGED <<tree, idx, archive, zf, closes, console, failedAt, run, firstResult>>

\* a mutation of the skip: a missing file raises instead of being skipped
Skip_raises ==
    /\ pc = "loop"
    /\ idx < NumEntries
    /\ LET fname == FILE_ORDER[idx + 1] IN
        /\ ~exists(full_path(fname))
        /\ console' = Append(console, WarningLine(fname))
    /\ err' = "SourceReadFailure"
    /\ failedAt' = idx + 1
    /\ pc' = "exit"
    /\ UNCHANGED <<tree, idx, archive, zf, closes, outcome, run, firstResult>>

\* a mutation of the skip: the warning is not printed
Skip_noWarning ==
    /\ pc = "loop"
    /\ idx < NumEntries
    /\ ~exists(full_path(FILE_ORDER[idx + 1]))
    /\ idx' = idx + 1
    /\ UNCHANGED <<pc, tree, archive, zf, closes, console, err, failedAt, outcome, run, firstResult>>

\* lines 26-30: the entry's file does not exist
Skip ==
    /\ pc = "loop"
    /\ idx < NumEntries
    /\ LET fname == FILE_ORDER[idx + 1] IN
        /\ ~exists(full_path(fname))
        /\ console' = Append(console, WarningLine(fname))
    /\ idx' = idx + 1
    /\ UNCHANGED <<pc, tree, archive, zf, closes, err, failedAt, outcome, run, firstResult>>

\* lines 26-38: the entry's file exists and is written
Add ==
    /\ pc = "loop"
    /\ idx < NumEntries
    /\ LET fname == FILE_ORDER[idx + 1] IN
        /\ exists(full_path(fname))
        /\ archive' = Append(archive, Member(fname, compress(fname), TRUE))
        /\ console' = Append(console, AddedLine(fname))
    /\ idx' = idx + 1
    /\ UNCHANGED <<pc, tree, zf, closes, err, failedAt, outcome, run, firstResult>>

\* a mutation of the failing write: the Added line is printed before the write
AddFail_printsFirst ==
    /\ pc = "loop"
    /\ idx < NumEntries
    /\ LET fname == FILE_ORDER[idx + 1] IN
        /\ exists(full_path(fname))
        /\ console' = Append(console, AddedLine(fname))
        /\ \E recorded \in BOOLEAN :
             archive' = IF recorded
                        THEN Append(archive, Member(fname, compress(fname), FALSE))
                        ELSE archive
    /\ err' = "SourceReadFailure"
    /\ failedAt' = idx + 1
    /\ pc' = "exit"
    /\ UNCHANGED <<tree, idx, zf, closes, outcome, run, firstResult>>

\* line 37 raises: the file exists but cannot be read.  When opening the
\* file fails nothing is recorded; when reading fails part-way the member
\* handle is closed while unwinding and the truncated member is recorded.
AddFail ==
    /\ pc = "loop"
    /\ idx < NumEntries
    /\ LET fname == FILE_ORDER[idx + 1] IN
        /\ exists(full_path(fname))
        /\ \E recorded \in BOOLEAN :
             archive' = IF recorded
                        THEN Append(archive, Member(fname, compress(fname), FALSE))
                        ELSE archive
    /\ err' = "SourceReadFailure"
    /\ failedAt' = idx + 1
    /\ pc' = "exit"
    /\ UNCHANGED <<tree, idx, zf, closes, console, outcome, run, firstResult>>

\* line 26: the manifest is exhausted
LoopEnd ==
    /\ pc = "loop"
    /\ idx = NumEntries
    /\ pc' = "exit"
    /\ UNCHANGED <<tree, idx, archive, zf, closes, console, err, failedAt, outcome, run, firstResult>>

\* a mutation of leaving the block: without the with statement the close is
\* only reached when the loop ends normally
Exit_noCloseOnError ==
    /\ pc = "exit"
    /\ IF err = "none"
       THEN /\ pc' = "print"
            /\ zf' = "Closed"
            /\ closes' = closes + 1
            /\ outcome' = outcome
       ELSE /\ pc' = "failed"
            /\ zf' = zf
            /\ closes' = closes
            /\ outcome' = "error"
    /\ UNCHANGED <<tree, idx, archive, console, err, failedAt, run, firstResult>>

\* a mutation of leaving the block: the pending exception is suppressed
Exit_suppresses ==
    /\ pc = "exit"
    /\ zf' = "Closed"
    /\ closes' = closes + 1
    /\ pc' = "print"
    /\ outcome' = outcome
    /\ UNCHANGED <<tree, idx, archive, console, err, failedAt, run, firstResult>>

\* the with statement leaves: the archive is closed; a pending exception
\* propagates and ends the script
Exit ==
    /\ pc = "exit"
    /\ zf' = "Closed"
    /\ closes' = closes + 1
    /\ IF err = "none"
       THEN /\ pc' = "print"
            /\ outcome' = outcome
       ELSE /\ pc' = "failed"
            /\ outcome' = "error"
    /\ UNCHANGED <<tree, idx, archive, console, err, failedAt, run, firstResult>>

\* line 40
PrintDone ==
    /\ pc = "print"
    /\ console' = Append(console, DoneLine)
    /\ pc' = "done"
    /\ outcome' = "ok"
    /\ firstResult' = IF firstResult = <<>> THEN <<archive>> ELSE firstResult
    /\ UNCHANGED <<tree, idx, archive, zf, closes, err, failedAt, run>>

\* the script is started again after a completed run, the source tree and
\* the output path being as that run left them
Rerun ==
    /\ pc = "done"
    /\ run < MaxRuns
    /\ run' = run + 1
    /\ pc' = "open"
    /\ idx' = 0
    /\ zf' = "NotStarted"
    /\ closes' = 0
    /\ console' = <<>>
    /\ err' = "none"
    /\ failedAt' = 0
    /\ outcome' = "running"
    /\ UNCHANGED <<tree, archive, firstResult>>

Next ==
    \/ OpenOk
    \/ OpenFail
    \/ Skip
    \/ Add
    \/ AddFail
    \/ LoopEnd
    \/ Exit
    \/ PrintDone

Spec == Init /\ [][Next]_vars

\* one run, every step of the script eventually taken
FairSpec == Init /\ [][Next]_vars /\ WF_vars(Next)

NextTwice ==
    \/ Next
    \/ Rerun

SpecTwice == Init /\ [][NextTwice]_vars

----------------------------------------------------------------------------
(* Vocabulary of the properties *)

Names(a) == [k \in 1..Len(a) |-> a[k].name]

\* the entries of a sequence of names that are in the source tree, in order
Existing(s) == SelectSeq(s, LAMBDA f : f \in tree)

Missing(s) == SelectSeq(s, LAMBDA f : f \notin tree)

IsAdded(line) == Len(line) = 2 /\ line[1] = "Added: "
IsWarning(line) == Len(line) = 3 /\ line[1] = "Warning: " /\ line[3] = " not found"

AddedNames == [k \in 1..Len(SelectSeq(console, IsAdded)) |-> SelectSeq(console, IsAdded)[k][2]]
WarnedNames == [k \in 1..Len(SelectSeq(console, IsWarning)) |-> SelectSeq(console, IsWarning)[k][2]]

DoneCount == Cardinality({k \in 1..Len(console) : console[k] = DoneLine})

StoreExpected(name) ==
    \/ name = <<"m","i","m","e","t","y","p","e">>
    \/ /\ Len(name) >= 4
       /\ name[Len(name) - 3] = "."
       /\ name[Len(name) - 2] = "p"
       /\ name[Len(name) - 1] = "n"
       /\ name[Len(name)] = "g"

----------------------------------------------------------------------------
\* C1: when a run completes, the member names of the archive, in order, are
\* the manifest restricted to the entries present in the source tree.
C1_MembersAreFilteredManifest ==
    pc = "done" => Names(archive) = Existing(FILE_ORDER)

C1_Witness ==
    /\ pc = "done"
    /\ FILE_ORDER[1] \notin tree
    /\ FILE_ORDER[2] \in tree
    /\ FILE_ORDER[9] \notin tree
    /\ FILE_ORDER[13] \in tree
    /\ Len(archive) = 5

\* C2: every member the run has written is stored iff its name is mimetype
\* or ends in .png and is deflated otherwise, whatever the source tree and
\* whatever was processed before it.
C2_CompressionFollowsRule ==
    zf # "NotStarted" =>
        \A k \in 1..Len(archive) :
            /\ archive[k].compress_type = ZIP_STORED <=> StoreExpected(archive[k].name)
            /\ archive[k].compress_type = ZIP_DEFLATED <=> ~StoreExpected(archive[k].name)

C2_Witness ==
    /\ pc = "done"
    /\ Len(archive) = NumEntries
    /\ archive[1].compress_type = ZIP_STORED
    /\ archive[9].compress_type = ZIP_STORED
    /\ archive[2].compress_type = ZIP_DEFLATED

\* C3: in a completed run every manifest entry has exactly one console line,
\* in manifest order: a warning if its file is missing, an Added line if it
\* was written; the Added lines name exactly the members written.
C3_OneLinePerEntry ==
    pc = "done" =>
        /\ Len(console) = NumEntries + 1
        /\ \A k \in 1..NumEntries :
             console[k] = IF FILE_ORDER[k] \in tree
                          THEN AddedLine(FILE_ORDER[k])
                          ELSE WarningLine(FILE_ORDER[k])
        /\ WarnedNames = Missing(FILE_ORDER)
        /\ AddedNames = Names(archive)

C3_Witness ==
    /\ pc = "done"
    /\ Len(WarnedNames) = 2
    /\ Len(AddedNames) = NumEntries - 2

\* C4: the archive the run writes never holds two members of the same name.
C4_NoMemberTwice ==
    zf # "NotStarted" =>
        \A j, k \in 1..Len(archive) : archive[j].name = archive[k].name => j = k

C4_Witness ==
    /\ pc = "done"
    /\ Len(archive) = NumEntries

\* C5: the handle goes NotStarted -> InProgress -> Closed; once opened, every
\* way out of the run has closed it, exactly once, and a closed archive gets
\* no further member.
C5_HandleLifecycle ==
    /\ [](/\ zf \in {"NotStarted", "InProgress", "Closed"}
          /\ closes <= 1
          /\ (zf = "Closed") <=> (closes = 1)
          /\ (pc \in {"print", "done", "failed"} /\ err # "OutputUnwritable")
                => (zf = "Closed" /\ closes = 1)
          /\ zf = "InProgress" => pc \in {"loop", "exit"})
    /\ [][/\ zf' # zf => \/ (zf = "NotStarted" /\ zf' = "InProgress")
                         \/ (zf = "InProgress" /\ zf' = "Closed")
          /\ zf = "Closed" => archive' = archive
          /\ zf = "NotStarted" => archive' \in {archive, <<>>}]_vars

C5_Witness ==
    /\ pc = "failed"
    /\ err = "SourceReadFailure"
    /\ failedAt = 4
    /\ zf = "Closed"
    /\ closes = 1

\* C6: the completion line appears at most once, only when every entry has
\* been processed, the archive is closed and no error occurred; a run that
\* ended in error never printed it.
C6_DoneOnlyOnCompletion ==
    /\ DoneCount <= 1
    /\ DoneCount = 1 =>
         /\ pc = "done"
         /\ idx = NumEntries
         /\ zf = "Closed"
         /\ err = "none"
         /\ outcome = "ok"
         /\ console[Len(console)] = DoneLine
    /\ (outcome = "error" \/ err # "none") => DoneCount = 0

C6_Witness ==
    /\ pc = "done"
    /\ DoneCount = 1
    /\ Len(archive) = 3

\* C7: a missing file never aborts the run: skipping keeps the loop going
\* with the next entry; unless opening or reading fails the run reaches its
\* end, every entry examined, the archive closed and the completion line
\* printed; on an empty tree the archive is empty with one warning per entry.
C7_MissingNeverAborts ==
    /\ [][(pc = "loop" /\ idx < NumEntries /\ FILE_ORDER[idx + 1] \notin tree)
            => (pc' = "loop" /\ idx' = idx + 1 /\ err' = "none" /\ archive' = archive)]_vars
    /\ <>(pc = "done" \/ err # "none")
    /\ [](pc = "done" =>
            /\ outcome = "ok"
            /\ idx = NumEntries
            /\ zf = "Closed"
            /\ DoneCount = 1
            /\ Len(WarnedNames) = NumEntries - Cardinality(tree))
    /\ []((pc = "done" /\ tree = {}) =>
            /\ archive = <<>>
            /\ WarnedNames = FILE_ORDER)

C7_Witness ==
    /\ pc = "done"
    /\ tree = {}
    /\ outcome = "ok"
    /\ Len(console) = NumEntries + 1

\* C8: when the output cannot be opened the run ends in error at once:
\* nothing examined, nothing printed, nothing written.
C8_OpenFailureIsImmediate ==
    /\ [](err = "OutputUnwritable" =>
            /\ pc = "failed"
            /\ outcome = "error"
            /\ idx = 0
            /\ console = <<>>
            /\ zf = "NotStarted"
            /\ closes = 0)
    /\ [][err' = "OutputUnwritable" => archive' = archive]_vars

C8_Witness ==
    /\ pc = "failed"
    /\ err = "OutputUnwritable"
    /\ archive = StaleArchive
    /\ tree = Range(FILE_ORDER)

\* C9: a second completed run on the same tree and output path leaves the
\* same members with the same compression as the first; the result of a
\* completed run does not depend on what the output held before.
C9_Idempotent ==
    pc = "done" =>
        /\ firstResult = <<archive>>
        /\ archive = [k \in 1..Len(Existing(FILE_ORDER)) |->
                        Member(Existing(FILE_ORDER)[k],
                               IF StoreExpected(Existing(FILE_ORDER)[k])
                               THEN ZIP_STORED ELSE ZIP_DEFLATED,
                               TRUE)]

C9_Witness ==
    /\ pc = "done"
    /\ run = 2
    /\ Len(archive) = 4
    /\ firstResult = <<archive>>

\* C10 as stated: after an abort at position i the closed archive holds
\* exactly the existing entries before i; nothing is printed for i or later;
\* every entry with an Added line is a member.
C10_Original ==
    (zf = "Closed" /\ err = "SourceReadFailure") =>
        /\ Names(archive) = Existing(SubSeq(FILE_ORDER, 1, failedAt - 1))
        /\ Len(console) = failedAt - 1
        /\ idx = failedAt - 1
        /\ Range(AddedNames) \subseteq Range(Names(archive))

\* C10 amended: after an abort at position i the closed archive holds the
\* existing entries before i, in manifest order, followed by at most a
\* truncated member for entry i itself; nothing is printed for i or later;
\* every entry with an Added line is a complete member.
C10_AbortLeavesPrefix ==
    (zf = "Closed" /\ err = "SourceReadFailure") =>
        /\ \/ Names(archive) = Existing(SubSeq(FILE_ORDER, 1, failedAt - 1))
           \/ /\ Names(archive) = Existing(SubSeq(FILE_ORDER, 1, failedAt))
              /\ ~archive[Len(archive)].complete
        /\ \A k \in 1..Len(archive) :
             archive[k].complete <=> archive[k].name # FILE_ORDER[failedAt]
        /\ FILE_ORDER[failedAt] \in tree
        /\ Len(console) = failedAt - 1
        /\ idx = failedAt - 1
        /\ AddedNames = Existing(SubSeq(FILE_ORDER, 1, failedAt - 1))
        /\ Range(AddedNames) \subseteq {archive[k].name : k \in {j \in 1..Len(archive) : archive[j].complete}}

C10_Witness ==
    /\ zf = "Closed"
    /\ err = "SourceReadFailure"
    /\ failedAt = 5
    /\ Len(archive) = 3
    /\ ~archive[3].complete
    /\ Len(console) = 4

====
